---- MODULE Spec2Model ----
(***************************************************************************)
(* The asyncio WebView client of clients/python/src/justbe_webview:        *)
(* newline-framed messages over the child's stdin/stdout, requests         *)
(* correlated with responses through internal_event, notifications         *)
(* dispatched through external_event.                                      *)
(*                                                                         *)
(* One action is one uninterrupted run of a coroutine between two          *)
(* suspension points of the event loop (or one call of a plain method).    *)
(* The two emitters are pyee AsyncIOEventEmitter objects: on/once append   *)
(* a listener, emit calls the listeners of the event in registration       *)
(* order, a once listener is removed as it is called.                      *)
(***************************************************************************)
EXTENDS Integers, Sequences, FiniteSets, TLC

\* ---------------------------------------------------------------- bounds
\* Frames the child writes, facade calls made, handlers registered, and calls
\* of wait_until_closed.
MaxFrames == 3
MaxCallers == 2
MaxHandlers == 1
MaxLoops == 1

Callers == 1..MaxCallers
Handlers == 1..MaxHandlers

\* ------------------------------------------------------------- constants
BIN_VERSION == "0.3.1"
OtherVersion == "0.3.0"
Delim == "\n"
ReadSize == 8192

\* ----------------------------------------------------------------- codec
\* A frame is a sequence of bytes (one-character strings).  The encoding
\* stands for msgspec's compact JSON: a tag byte for the top-level kind and
\* one byte per field; no encoding holds the delimiter, and no proper prefix
\* of an encoding decodes.
Digits == <<"0", "1", "2", "3", "4", "5", "6", "7", "8", "9">>

Str(i) == Digits[i + 1]

IdOf(b) == CHOOSE i \in 0..9 : Digits[i + 1] = b

IsDigit(b) == \E i \in 1..10 : Digits[i] = b

Outcomes == {"ack", "err"}

OutByte(o) == IF o = "ack" THEN "a" ELSE "e"

VerByte(v) == IF v = BIN_VERSION THEN "v" ELSE "w"

EncodeRequest(id) == <<"q", Str(id), "o">>

EncodeResponse(id, o) == <<"r", Str(id), OutByte(o)>>

EncodeStarted(v) == <<"n", "s", VerByte(v)>>

EncodeClosed == <<"n", "c", "-">>

EncodeIpc == <<"n", "i", "m">>

DecodeError == [type |-> "error"]

Decode(message) ==
    IF Len(message) # 3 THEN DecodeError
    ELSE IF message[1] = "r" /\ IsDigit(message[2]) /\ message[3] \in {"a", "e"}
    THEN [type |-> "response", id |-> IdOf(message[2]),
          data |-> IF message[3] = "a" THEN "ack" ELSE "err"]
    ELSE IF message[1] = "n" /\ message[2] = "s" /\ message[3] \in {"v", "w"}
    THEN [type |-> "notification", tag |-> "started",
          version |-> IF message[3] = "v" THEN BIN_VERSION ELSE OtherVersion]
    ELSE IF message = EncodeClosed
    THEN [type |-> "notification", tag |-> "closed", version |-> ""]
    ELSE IF message = EncodeIpc
    THEN [type |-> "notification", tag |-> "ipc", version |-> ""]
    ELSE DecodeError

\* ----------------------------------------------------------------- state
VARIABLES
    process,         \* self.process: "none", "running" (child alive), "exited"
    ipc,             \* truth value of options.ipc
    message_id,      \* self.__message_id
    internal_event,  \* listeners of internal_event: <<[event, c]>>
    external_event,  \* listeners of external_event: <<[event, once, h]>>
    buffer,          \* self.buffer
    stdout,          \* bytes the child has written and recv has not read yet
    stdin,           \* bytes written to the child's stdin
    pc,              \* per caller: "idle", "waiting", "done", "failed"
    req,             \* per caller: the id of its request
    result,          \* per caller: the response its future was resolved with
    loop,            \* process_message_loop: "idle", "reading", "returned"
    loops,           \* how many times process_message_loop has been entered
    exit,            \* why the loop returned last: "", "closed", "eof", "error"
    reaped,          \* destroy() has terminated the child and waited for it
    frames,          \* history: the frames the child has written, in order
    decoded,         \* history: [m, loop] for every frame recv has decoded
    notes,           \* history: [n, hs, loop] for every notification dispatched
    regs,            \* history: per handler, its call of on/once
    resolved,        \* history: callers in the order their futures resolved
    warnings,        \* history: number of version warnings printed
    spliced,         \* history: the last read completed a frame begun in an earlier chunk
    unwrap           \* a facade operation unwrapping a response: [op, outcome, ret]

vars == <<process, ipc, message_id, internal_event, external_event, buffer,
          stdout, stdin, pc, req, result, loop, loops, exit, reaped, frames,
          decoded, notes, regs, resolved, warnings, spliced, unwrap>>

NoResponse == [type |-> "none"]

NoNote == [type |-> "none"]

Unused == [state |-> "unused", event |-> "", once |-> FALSE, at |-> 0]

Events == {"started", "closed", "ipc"}

\* The frames the child may write: every response to an id a caller can hold,
\* every notification, and frames that do not decode.
Malformed == {<<"x", "s", "v">>, <<"n", "c">>}

ChildFrames ==
    {EncodeResponse(i, o) : i \in 0..(MaxCallers - 1), o \in Outcomes}
    \cup {EncodeStarted(BIN_VERSION), EncodeStarted(OtherVersion),
          EncodeClosed, EncodeIpc}
    \cup Malformed

\* The WebView after __init__.
InitSession ==
    /\ process \in {"none", "running"}
    /\ ipc \in BOOLEAN
    /\ message_id = 0
    /\ internal_event = <<>>
    /\ external_event = <<>>
    /\ buffer = <<>>
    /\ stdout = <<>>
    /\ stdin = <<>>
    /\ pc = [c \in Callers |-> "idle"]
    /\ req = [c \in Callers |-> 0]
    /\ result = [c \in Callers |-> NoResponse]
    /\ loop = "idle"
    /\ loops = 0
    /\ exit = ""
    /\ reaped = FALSE
    /\ frames = <<>>
    /\ decoded = <<>>
    /\ notes = <<>>
    /\ regs = [h \in Handlers |-> Unused]
    /\ resolved = <<>>
    /\ warnings = 0
    /\ spliced = FALSE

NoUnwrap == [op |-> "", outcome |-> [type |-> "none"], ret |-> [kind |-> "none"]]

Init == InitSession /\ unwrap = NoUnwrap

\* ------------------------------------------------------------- emitters
\* emit(event): the listeners called, in registration order.
Called(ee, event) == SelectSeq(ee, LAMBDA l : l.event = event)

\* A slip: a once listener that stays registered.
KeepOnAlways(l, event) == TRUE

\* emit(event): the listeners left; a once listener removes itself as it is
\* called.
KeepOn(l, event) == ~(l.event = event /\ l.once)

Remaining(ee, event) == SelectSeq(ee, LAMBDA l : KeepOn(l, event))

\* internal_event holds once listeners only (send registers nothing else).
\* A slip: the listener of a future stays registered after it was called.
WaitingKeep(ie, event) == ie

Waiting(ie, event) == SelectSeq(ie, LAMBDA l : l.event # event)

\* ------------------------------------------------------------------ recv
HasDelim(b) == \E i \in 1..Len(b) : b[i] = Delim

FirstDelim(b) == CHOOSE i \in 1..Len(b) : b[i] = Delim /\ \A j \in 1..(i - 1) : b[j] # Delim

\* message, self.buffer = self.buffer.split(b"\n", 1)
Split(b) ==
    [message |-> SubSeq(b, 1, FirstDelim(b) - 1),
     rest |-> SubSeq(b, FirstDelim(b) + 1, Len(b))]

\* A slip: the chunk replaces the buffer.
FeedChunkOnly(b, chunk) == chunk

\* A slip: the chunk is put in front of what the buffer holds.
FeedFront(b, chunk) == chunk \o b

\* self.buffer += chunk
Feed(b, chunk) == b \o chunk

\* A slip: every response emitted under one fixed event name.
EventNameFixed(msg) == Str(0)

\* The event a response is emitted under: str(msg.data.id).
EventName(msg) == Str(msg.id)

\* A slip: a frame that does not decode makes recv return None.
AfterDecodeErrorReturn(st) == [st EXCEPT !.ret = "none"]

\* except msgspec.DecodeError: the error is printed and the while loop goes on.
AfterDecodeError(st) == st

\* One pass of the body of `while b"\n" in self.buffer`.  st.ret is
\* "continue" while recv is in the loop and "notification" once it has
\* returned one; st.woken lists [c, m] for every future resolved.
HandleFrame(st) ==
    LET sp == Split(st.buffer)
        msg == Decode(sp.message)
        st1 == [st EXCEPT !.buffer = sp.rest, !.decoded = Append(@, msg)]
    IN  IF msg.type = "notification"
        THEN [st1 EXCEPT !.ret = "notification", !.note = msg]
        ELSE IF msg.type = "response"
        THEN LET ls == Called(st1.ie, EventName(msg))
             IN  [st1 EXCEPT
                     !.ie = Waiting(@, EventName(msg)),
                     !.woken = @ \o [i \in 1..Len(ls) |-> [c |-> ls[i].c, m |-> msg]]]
        ELSE AfterDecodeError(st1)

RECURSIVE Scan(_)
Scan(st) ==
    IF st.ret = "continue" /\ HasDelim(st.buffer)
    THEN Scan(HandleFrame(st))
    ELSE st

\* What recv does with one chunk it has read.
RecvChunk(chunk) ==
    Scan([buffer |-> Feed(buffer, chunk), ie |-> internal_event, woken |-> <<>>,
          decoded |-> <<>>, ret |-> "continue", note |-> NoNote])

WokenBy(woken, c) == {i \in 1..Len(woken) : woken[i].c = c}

\* A slip: responses are emitted on the emitter that holds the handlers.
EmitResponseShared(ee, msg) == Called(ee, EventName(msg))

\* recv emits a response on internal_event: of the listeners of
\* external_event it calls none.
EmitResponseExternal(ee, msg) == <<>>

\* The calls of external handlers made for the responses of one chunk, as
\* entries of notes.
Crossed(ee, msgs, n) ==
    LET rs == SelectSeq(msgs, LAMBDA m :
                  m.type = "response" /\ EmitResponseExternal(ee, m) # <<>>)
    IN  [i \in 1..Len(rs) |->
            [n |-> rs[i],
             hs |-> [j \in 1..Len(EmitResponseExternal(ee, rs[i])) |->
                        EmitResponseExternal(ee, rs[i])[j].h],
             loop |-> n]]

\* ---------------------------------------------------- process_message_loop
\* if version != BIN_VERSION: print a warning; nothing else depends on it.
Warns(n) == n.tag = "started" /\ n.version # BIN_VERSION

\* A slip: the loop never returns on a notification.
ReturnsNever(n) == FALSE

\* A slip: a version mismatch ends the loop as Closed does.
ReturnsOnMismatch(n) == n.tag = "closed" \/ (n.tag = "started" /\ n.version # BIN_VERSION)

\* if isinstance(notification, ClosedNotification): return
Returns(n) == n.tag = "closed"

\* The handlers external_event.emit(tag, notification) calls.
Dispatch(n) == Called(external_event, n.tag)

\* --------------------------------------------------------------- actions
\* __aenter__: the child is spawned unless the constructor already did.
Aenter ==
    /\ process = "none"
    /\ process' = "running"
    /\ UNCHANGED <<unwrap, spliced, reaped, ipc, message_id, internal_event,
                   external_event, buffer, stdout, stdin, pc, req, result,
                   loop, loops, exit, frames, decoded, notes, regs, resolved,
                   warnings>>

\* A slip: no check of options.ipc.
GatedNever(event) == FALSE

\* on / once: the check that guards the "ipc" event.
Gated(event) == event = "ipc" /\ ~ipc

\* on(event, callback) and once(event, callback), with a callback not
\* registered before; handler identities are handed out in order.
On(h, event, once) ==
    /\ regs[h].state = "unused"
    /\ \A g \in Handlers : g < h => regs[g].state # "unused"
    /\ IF Gated(event)
       THEN /\ regs' = [regs EXCEPT ![h] = [state |-> "rejected", event |-> event,
                                             once |-> once, at |-> Len(notes)]]
            /\ UNCHANGED external_event
       ELSE /\ regs' = [regs EXCEPT ![h] = [state |-> "ok", event |-> event,
                                             once |-> once, at |-> Len(notes)]]
            /\ external_event' =
                   Append(external_event, [event |-> event, once |-> once, h |-> h])
    /\ UNCHANGED <<unwrap, spliced, reaped, process, ipc, message_id,
                   internal_event, buffer, stdout, stdin, pc, req, result,
                   loop, loops, exit, frames, decoded, notes, resolved,
                   warnings>>

\* A slip: the test of self.process is left out.
NotStartedNever == FALSE

\* if self.process is None: raise RuntimeError("Webview process not started")
NotStarted == process = "none"

\* A slip: the counter is read and not advanced.
NextIdSame(id) == id

\* message_id: self.__message_id += 1
NextId(id) == id + 1

\* A slip: the frame is written before the listener is registered, which
\* is left to a later step.
OnceFutureLate(ie, event, c) == ie

\* self.internal_event.once(str(request.id), set_result)
OnceFuture(ie, event, c) == Append(ie, [event |-> event, c |-> c])

\* A slip: the frame is written without its delimiter.
WriteFrameBare(out, id) == out \o EncodeRequest(id)

\* self.process.stdin.write(encoded + b"\n"); flush()
WriteFrame(out, id) == out \o EncodeRequest(id) \o <<Delim>>

\* A facade operation up to its first suspension: the id is taken from
\* message_id, then send registers the listener of the future, writes the
\* frame and awaits.  Without a process send raises before anything else;
\* writing to a child that has exited raises after the listener is registered.
Call(c) ==
    /\ pc[c] = "idle"
    /\ \A d \in Callers : d < c => pc[d] # "idle"
    /\ message_id' = NextId(message_id)
    /\ req' = [req EXCEPT ![c] = message_id]
    /\ IF NotStarted
       THEN /\ pc' = [pc EXCEPT ![c] = "failed"]
            /\ UNCHANGED <<internal_event, stdin>>
       ELSE /\ internal_event' = OnceFuture(internal_event, Str(message_id), c)
            /\ IF process = "running"
               THEN /\ stdin' = WriteFrame(stdin, message_id)
                    /\ pc' = [pc EXCEPT ![c] = "waiting"]
               ELSE /\ stdin' = stdin
                    /\ pc' = [pc EXCEPT ![c] = "failed"]
    /\ UNCHANGED <<unwrap, spliced, reaped, process, ipc, external_event,
                   buffer, stdout, result, loop, loops, exit, frames,
                   decoded, notes, regs, resolved, warnings>>

\* The child writes one frame and its delimiter to its stdout.
ChildWrite(f) ==
    /\ process = "running"
    /\ Len(frames) < MaxFrames
    /\ frames' = Append(frames, f)
    /\ stdout' = stdout \o f \o <<Delim>>
    /\ UNCHANGED <<unwrap, spliced, reaped, process, ipc, message_id,
                   internal_event, external_event, buffer, stdin, pc, req,
                   result, loop, loops, exit, decoded, notes, regs, resolved,
                   warnings>>

\* The child exits by itself: its stdout reaches end-of-stream once drained.
ChildExit ==
    /\ process = "running"
    /\ process' = "exited"
    /\ UNCHANGED <<unwrap, spliced, reaped, ipc, message_id, internal_event,
                   external_event, buffer, stdout, stdin, pc, req, result,
                   loop, loops, exit, frames, decoded, notes, regs, resolved,
                   warnings>>

\* destroy(): terminate() and wait().
Destroy ==
    /\ ~NotStarted
    /\ process' = "exited"
    /\ reaped' = TRUE
    /\ UNCHANGED <<unwrap, spliced, ipc, message_id, internal_event,
                   external_event, buffer, stdout, stdin, pc, req, result,
                   loop, loops, exit, frames, decoded, notes, regs, resolved,
                   warnings>>

\* process_message_loop runs up to the first read of recv; without a process
\* recv raises.  n bounds the number of loops started.
ProcessMessageLoop(n) ==
    /\ loop # "reading"
    /\ loops < n
    /\ loops' = loops + 1
    /\ IF NotStarted
       THEN loop' = "returned" /\ exit' = "unstarted"
       ELSE loop' = "reading" /\ exit' = ""
    /\ UNCHANGED <<unwrap, spliced, reaped, process, ipc, message_id,
                   internal_event, external_event, buffer, stdout, stdin, pc,
                   req, result, frames, decoded, notes, regs, resolved,
                   warnings>>

\* wait_until_closed()
WaitUntilClosed == ProcessMessageLoop(MaxLoops)

\* stdout_reader.read(8192) returns k bytes: recv appends them to the buffer
\* and scans it; when recv returns a notification, process_message_loop
\* dispatches it and either returns or calls recv again.
Read(k) ==
    /\ loop = "reading"
    /\ k \in 1..Len(stdout)
    /\ k <= ReadSize
    /\ \E st \in {RecvChunk(SubSeq(stdout, 1, k))} :
       LET got == st.ret = "notification"
           n == st.note
           hs == IF got THEN Dispatch(n) ELSE <<>>
           back == (got /\ Returns(n)) \/ st.ret = "none"
       IN  /\ stdout' = SubSeq(stdout, k + 1, Len(stdout))
           /\ buffer' = st.buffer
           /\ internal_event' = st.ie
           /\ pc' = [c \in Callers |->
                       IF WokenBy(st.woken, c) # {} /\ pc[c] = "waiting"
                       THEN "done" ELSE pc[c]]
           /\ result' = [c \in Callers |->
                           IF WokenBy(st.woken, c) # {}
                           THEN st.woken[CHOOSE i \in WokenBy(st.woken, c) :
                                            \A j \in WokenBy(st.woken, c) : i <= j].m
                           ELSE result[c]]
           /\ resolved' = resolved \o [i \in 1..Len(st.woken) |-> st.woken[i].c]
           /\ decoded' = decoded \o
                  [i \in 1..Len(st.decoded) |-> [m |-> st.decoded[i], loop |-> loops]]
           /\ external_event' =
                  IF got THEN Remaining(external_event, n.tag) ELSE external_event
           /\ notes' =
                  IF got
                  THEN Append(notes \o Crossed(external_event, st.decoded, loops),
                              [n |-> n, hs |-> [i \in 1..Len(hs) |-> hs[i].h],
                               loop |-> loops])
                  ELSE notes \o Crossed(external_event, st.decoded, loops)
           /\ warnings' = IF got /\ Warns(n) THEN warnings + 1 ELSE warnings
           /\ loop' = IF back THEN "returned" ELSE "reading"
           /\ exit' = IF got /\ Returns(n) THEN "closed"
                      ELSE IF back THEN "none" ELSE exit
           /\ spliced' = (buffer # <<>> /\ ~HasDelim(buffer) /\ st.decoded # <<>>)
    /\ UNCHANGED <<unwrap, reaped, process, ipc, message_id, stdin, req,
                   loops, frames, regs>>

\* read returns b"": recv returns None and process_message_loop returns.
ReadEof ==
    /\ loop = "reading"
    /\ stdout = <<>>
    /\ process = "exited"
    /\ loop' = "returned"
    /\ exit' = "eof"
    /\ UNCHANGED <<unwrap, spliced, reaped, process, ipc, message_id,
                   internal_event, external_event, buffer, stdout, stdin, pc,
                   req, result, loops, frames, decoded, notes, regs,
                   resolved, warnings>>

\* read raises: recv prints the error and returns None.
ReadError ==
    /\ loop = "reading"
    /\ loop' = "returned"
    /\ exit' = "error"
    /\ UNCHANGED <<unwrap, spliced, reaped, process, ipc, message_id,
                   internal_event, external_event, buffer, stdout, stdin, pc,
                   req, result, loops, frames, decoded, notes, regs,
                   resolved, warnings>>

Next ==
    \/ Aenter
    \/ \E h \in Handlers, event \in Events, once \in BOOLEAN : On(h, event, once)
    \/ \E c \in Callers : Call(c)
    \/ \E f \in ChildFrames : ChildWrite(f)
    \/ ChildExit
    \/ Destroy
    \/ WaitUntilClosed
    \/ \E k \in 1..Len(stdout) : Read(k)
    \/ ReadEof
    \/ ReadError

\* The whole client against a child that may write any frame.
Spec == Init /\ [][Next]_vars

\* Requests and responses: callers, a child that answers, closes and exits;
\* no handler is registered, and every read returns all the bytes the child
\* has written so far (whole frames, one or several).
RpcFrames ==
    {EncodeResponse(i, o) : i \in 0..(MaxCallers - 1), o \in Outcomes}
    \cup {EncodeClosed}

NextRpc ==
    \/ Aenter
    \/ \E c \in Callers : Call(c)
    \/ \E f \in RpcFrames : ChildWrite(f)
    \/ ChildExit
    \/ Destroy
    \/ WaitUntilClosed
    \/ Read(Len(stdout))
    \/ ReadEof
    \/ ReadError

InitNoIpc == Init /\ ~ipc

SpecRpc == InitNoIpc /\ [][NextRpc]_vars

\* Notifications and handlers: no request is sent, and every read returns all
\* the bytes the child has written so far (whole frames, one or several).
EventFrames ==
    {EncodeStarted(BIN_VERSION), EncodeStarted(OtherVersion), EncodeClosed, EncodeIpc}

NextEvents ==
    \/ Aenter
    \/ \E h \in Handlers, event \in Events, once \in BOOLEAN : On(h, event, once)
    \/ \E f \in EventFrames : ChildWrite(f)
    \/ ChildExit
    \/ WaitUntilClosed
    \/ Read(Len(stdout))
    \/ ReadEof

SpecEvents == Init /\ [][NextEvents]_vars

\* Framing: well-formed and malformed frames, read in chunks of any size, from
\* a child that stays alive and does not close.
FramingFrames ==
    {EncodeResponse(i, "ack") : i \in 0..(MaxCallers - 1)}
    \cup {EncodeStarted(BIN_VERSION)}
    \cup Malformed

NextFraming ==
    \/ Aenter
    \/ \E c \in Callers : Call(c)
    \/ \E f \in FramingFrames : ChildWrite(f)
    \/ WaitUntilClosed
    \/ \E k \in 1..Len(stdout) : Read(k)

SpecFraming == InitNoIpc /\ [][NextFraming]_vars

\* The ipc gate: handlers, callers and a child that posts ipc messages; every
\* read returns all the bytes written so far.
GateFrames == {EncodeIpc, EncodeStarted(BIN_VERSION)}

NextGate ==
    \/ Aenter
    \/ \E h \in Handlers, event \in Events, once \in BOOLEAN : On(h, event, once)
    \/ \E c \in Callers : Call(c)
    \/ \E f \in GateFrames : ChildWrite(f)
    \/ WaitUntilClosed
    \/ Read(Len(stdout))

SpecGate == Init /\ [][NextGate]_vars

\* Notifications of two kinds among responses and malformed frames, read in
\* chunks of every size, with handlers registered along the way.
OrderFrames ==
    {EncodeStarted(BIN_VERSION), EncodeIpc, EncodeResponse(0, "ack"), <<"x", "s", "v">>}

NextOrder ==
    \/ Aenter
    \/ \E h \in Handlers, event \in {"started", "ipc"} : On(h, event, FALSE)
    \/ \E f \in OrderFrames : ChildWrite(f)
    \/ WaitUntilClosed
    \/ \E k \in 1..Len(stdout) : Read(k)

SpecOrder == Init /\ [][NextOrder]_vars

\* A coroutine handler scheduled by external_event.emit runs as a task of its
\* own: it issues its requests one after the other, each awaited before the
\* next, as handle_start of examples/simple.py does.
HandlerCall(c) ==
    /\ \E i \in 1..Len(notes) : notes[i].hs # <<>>
    /\ \A d \in Callers : d < c => pc[d] = "done"
    /\ Call(c)

\* The child answers a request it has read from its stdin, once.
ChildRespond(id) ==
    /\ \E c \in Callers : pc[c] = "waiting" /\ req[c] = id
    /\ \A i \in 1..Len(frames) : frames[i] # EncodeResponse(id, "ack")
    /\ ChildWrite(EncodeResponse(id, "ack"))

HandlerFrames == {EncodeStarted(BIN_VERSION), EncodeIpc}

NextHandler ==
    \/ Aenter
    \/ \E h \in Handlers, once \in BOOLEAN : On(h, "started", once)
    \/ \E c \in Callers : HandlerCall(c)
    \/ \E f \in HandlerFrames : ChildWrite(f)
    \/ \E id \in 0..(MaxCallers - 1) : ChildRespond(id)
    \/ WaitUntilClosed
    \/ Read(Len(stdout))

SpecHandler == InitNoIpc /\ [][NextHandler]_vars

\* A session driven past its end: wait_until_closed may be called once more
\* than in the other specifications, so that a loop can be started after the
\* first one has exited and destroy has run.
WaitUntilClosedAgain == ProcessMessageLoop(MaxLoops + 1)

TerminatedFrames == {EncodeClosed, EncodeIpc, EncodeResponse(0, "ack")}

NextTerminated ==
    \/ Aenter
    \/ \E c \in Callers : Call(c)
    \/ \E f \in TerminatedFrames : ChildWrite(f)
    \/ ChildExit
    \/ Destroy
    \/ WaitUntilClosedAgain
    \/ Read(Len(stdout))
    \/ ReadEof

SpecTerminated == InitNoIpc /\ [][NextTerminated]_vars

\* __aexit__, first half: await self.wait_until_closed(), once the context
\* has been entered.
AexitWait ==
    /\ process # "none"
    /\ loop = "idle"
    /\ WaitUntilClosed

\* A slip: destroy is not held back until wait_until_closed has returned.
LoopExitedAlways == TRUE

\* await self.wait_until_closed() has returned.
LoopExited == loop = "returned"

\* __aexit__, second half: self.destroy().
AexitDestroy ==
    /\ LoopExited
    /\ ~reaped
    /\ Destroy

ContextFrames == {EncodeClosed, EncodeIpc, EncodeResponse(0, "ack")}

\* A WebView used only through async with: the body calls facade operations
\* and registers handlers, wait_until_closed and destroy run in __aexit__.
NextContext ==
    \/ Aenter
    \/ \E h \in Handlers, event \in {"closed", "ipc"} : On(h, event, FALSE)
    \/ \E c \in Callers : Call(c)
    \/ \E f \in ContextFrames : ChildWrite(f)
    \/ ChildExit
    \/ AexitWait
    \/ Read(Len(stdout))
    \/ ReadEof
    \/ ReadError
    \/ AexitDestroy

SpecContext == Init /\ [][NextContext]_vars

\* Handlers registered under the decimal string of a request id, beside
\* handlers of a notification, while requests are answered.
RegistryEvents == {Str(0), "started"}

RegistryFrames ==
    {EncodeResponse(0, "ack"), EncodeResponse(1, "err"), EncodeStarted(BIN_VERSION)}

NextRegistries ==
    \/ Aenter
    \/ \E h \in Handlers, event \in RegistryEvents, once \in BOOLEAN : On(h, event, once)
    \/ \E c \in Callers : Call(c)
    \/ \E f \in RegistryFrames : ChildWrite(f)
    \/ WaitUntilClosed
    \/ Read(Len(stdout))

SpecRegistries == InitNoIpc /\ [][NextRegistries]_vars

\* A WebView constructed without a binary path, used before and after the
\* context is entered.
UnstartedFrames == {EncodeStarted(BIN_VERSION), EncodeResponse(0, "ack")}

NextUnstarted ==
    \/ Aenter
    \/ \E h \in Handlers, event \in {"started", "ipc"}, once \in BOOLEAN : On(h, event, once)
    \/ \E c \in Callers : Call(c)
    \/ \E f \in UnstartedFrames : ChildWrite(f)
    \/ Destroy
    \/ WaitUntilClosed
    \/ Read(Len(stdout))
    \/ ReadEof

SpecUnstarted == Init /\ [][NextUnstarted]_vars

\* ---------------------------------------------------------- legacy client
\* main.py: the same fields, frames delimited by NUL, read one character at
\* a time, and one request id for every request.
Nul == "\\0"

\* request_id = "unique_id"
LegacyId == "unique_id"

LegacyEncodeRequest(id) == <<"q", id, "o">>

LegacyEncodeResponse(id, o) == <<"r", id, OutByte(o)>>

\* json.loads(message) and the tests of data["$type"].
LegacyDecode(message) ==
    IF Len(message) # 3 THEN DecodeError
    ELSE IF message[1] = "r" /\ message[3] \in {"a", "e"}
    THEN [type |-> "response", id |-> message[2],
          data |-> IF message[3] = "a" THEN "ack" ELSE "err"]
    ELSE IF message = EncodeClosed
    THEN [type |-> "notification", tag |-> "closed", version |-> ""]
    ELSE IF message = EncodeIpc
    THEN [type |-> "notification", tag |-> "ipc", version |-> ""]
    ELSE DecodeError

LegacyHasDelim(b) == \E i \in 1..Len(b) : b[i] = Nul

LegacyFirstDelim(b) ==
    CHOOSE i \in 1..Len(b) : b[i] = Nul /\ \A j \in 1..(i - 1) : b[j] # Nul

\* message, self.buffer = self.buffer.split("\0", 1)
LegacySplit(b) ==
    [message |-> SubSeq(b, 1, LegacyFirstDelim(b) - 1),
     rest |-> SubSeq(b, LegacyFirstDelim(b) + 1, Len(b))]

\* send up to its await: the listener of the future is registered under
\* request_id, the request is written and flushed.
LegacySend(c) ==
    /\ pc[c] = "idle"
    /\ \A d \in Callers : d < c => pc[d] # "idle"
    /\ internal_event' = Append(internal_event, [event |-> LegacyId, c |-> c])
    /\ stdin' = stdin \o LegacyEncodeRequest(LegacyId) \o <<Nul>>
    /\ pc' = [pc EXCEPT ![c] = "waiting"]
    /\ UNCHANGED <<unwrap, spliced, reaped, process, ipc, message_id,
                   external_event, buffer, stdout, req, result, loop, loops,
                   exit, frames, decoded, notes, regs, resolved, warnings>>

\* The child writes one frame and NUL.
LegacyChildWrite(f) ==
    /\ process = "running"
    /\ Len(frames) < MaxFrames
    /\ frames' = Append(frames, f)
    /\ stdout' = stdout \o f \o <<Nul>>
    /\ UNCHANGED <<unwrap, spliced, reaped, process, ipc, message_id,
                   internal_event, external_event, buffer, stdin, pc, req,
                   result, loop, loops, exit, decoded, notes, regs, resolved,
                   warnings>>

\* stdout.read(1) returns one character: recv appends it and, when the
\* buffer holds a NUL, splits one message off and decodes it; a response is
\* emitted under its id, a notification goes back to process_message_loop.
LegacyRead ==
    /\ loop = "reading"
    /\ stdout # <<>>
    /\ LET b == Append(buffer, Head(stdout))
           has == LegacyHasDelim(b)
           msg == IF has THEN LegacyDecode(LegacySplit(b).message) ELSE DecodeError
           got == msg.type = "notification"
           ls == IF msg.type = "response" THEN Called(internal_event, msg.id) ELSE <<>>
           woken == {ls[i].c : i \in 1..Len(ls)}
           hs == IF got THEN Dispatch(msg) ELSE <<>>
       IN  /\ stdout' = Tail(stdout)
           /\ buffer' = IF has THEN LegacySplit(b).rest ELSE b
           /\ internal_event' =
                  IF msg.type = "response" THEN Waiting(internal_event, msg.id)
                  ELSE internal_event
           /\ pc' = [c \in Callers |-> IF c \in woken THEN "done" ELSE pc[c]]
           /\ result' = [c \in Callers |-> IF c \in woken THEN msg ELSE result[c]]
           /\ resolved' = resolved \o [i \in 1..Len(ls) |-> ls[i].c]
           /\ decoded' = IF has THEN Append(decoded, [m |-> msg, loop |-> loops])
                         ELSE decoded
           /\ external_event' =
                  IF got THEN Remaining(external_event, msg.tag) ELSE external_event
           /\ notes' =
                  IF got
                  THEN Append(notes, [n |-> msg, hs |-> [i \in 1..Len(hs) |-> hs[i].h],
                                      loop |-> loops])
                  ELSE notes
           /\ loop' = IF got /\ Returns(msg) THEN "returned" ELSE "reading"
           /\ exit' = IF got /\ Returns(msg) THEN "closed" ELSE exit
    /\ UNCHANGED <<unwrap, spliced, reaped, process, ipc, message_id, stdin,
                   req, loops, frames, regs, warnings>>

LegacyFrames ==
    {LegacyEncodeResponse(LegacyId, o) : o \in Outcomes} \cup {EncodeIpc, EncodeClosed}

\* __init__ of main.py always spawns the child.
InitLegacy == Init /\ ~ipc /\ process = "running"

NextLegacy ==
    \/ \E c \in Callers : LegacySend(c)
    \/ \E f \in LegacyFrames : LegacyChildWrite(f)
    \/ WaitUntilClosed
    \/ LegacyRead

SpecLegacy == InitLegacy /\ [][NextLegacy]_vars

\* ---------------------------------------------------------- facade results
\* What each facade operation expects of its response: "ack", or the kind of
\* result it passes to return_result.
AckOps ==
    {"set_size", "fullscreen", "maximize", "minimize", "set_title",
     "set_visibility", "eval", "open_devtools", "load_html", "load_url"}

ResultOps == {"get_version", "get_size", "get_title", "is_visible"}

Ops == AckOps \cup ResultOps

ResultKinds == {"StringResultType", "BooleanResultType", "SizeResultType"}

Expected(op) ==
    CASE op \in {"get_version", "get_title"} -> "StringResultType"
      [] op = "is_visible" -> "BooleanResultType"
      [] op = "get_size" -> "SizeResultType"
      [] OTHER -> "ack"

Messages == {"boom", "denied"}

Values == {"v1", "v2"}

\* The responses send can return: AckResponse, ErrResponse, ResultResponse.
Responses ==
    {[type |-> "ack"]}
    \cup {[type |-> "err", message |-> m] : m \in Messages}
    \cup {[type |-> "result", kind |-> k, value |-> v] : k \in ResultKinds, v \in Values}

\* type(result).__name__
TypeName(r) ==
    CASE r.type = "ack" -> "AckResponse"
      [] r.type = "err" -> "ErrResponse"
      [] OTHER -> "ResultResponse"

\* The text of the response inside an f-string.
Repr(r) ==
    CASE r.type = "ack" -> <<"AckResponse">>
      [] r.type = "err" -> <<"ErrResponse", r.message>>
      [] OTHER -> <<"ResultResponse", r.kind, r.value>>

Return(v) == [kind |-> "return", value |-> v, text |-> <<>>]

\* raise ValueError(text)
Raise(text) == [kind |-> "raise", value |-> "", text |-> text]

\* A slip: any ResultResponse is unwrapped, whatever its result is.
IsExpectedAny(r, expected_type) == r.type = "result"

\* isinstance(result, ResultResponse) and isinstance(result.result, expected_type)
IsExpected(r, expected_type) == r.type = "result" /\ r.kind = expected_type

return_result(r, expected_type) ==
    IF IsExpected(r, expected_type)
    THEN Return(r.value)
    ELSE Raise(<<"Expected ", expected_type, " result got: ">> \o Repr(r))

return_ack(r) ==
    IF r.type = "ack" THEN Return("None")
    ELSE IF r.type = "err" THEN Raise(<<r.message>>)
    ELSE Raise(<<"Unexpected response type: ", TypeName(r)>>)

\* The end of a facade operation: the response of send goes through
\* return_ack or return_result.
Unwrap ==
    /\ unwrap.ret.kind = "pending"
    /\ unwrap' = [unwrap EXCEPT !.ret =
                     IF unwrap.op \in AckOps
                     THEN return_ack(unwrap.outcome)
                     ELSE return_result(unwrap.outcome, Expected(unwrap.op))]
    /\ UNCHANGED <<process, ipc, message_id, internal_event, external_event,
                   buffer, stdout, stdin, pc, req, result, loop, loops, exit,
                   reaped, frames, decoded, notes, regs, resolved, warnings,
                   spliced>>

\* Every facade operation with every response send can hand it.
InitUnwrap ==
    /\ InitSession
    /\ process = "running"
    /\ ~ipc
    /\ unwrap \in {[op |-> op, outcome |-> r, ret |-> [kind |-> "pending"]] :
                      op \in Ops, r \in Responses}

NextUnwrap == Unwrap

SpecUnwrap == InitUnwrap /\ [][NextUnwrap]_vars

\* ------------------------------------------------------------ properties
Increasing(f, n) == \A i, j \in 1..n : i < j => f[i] < f[j]

ClosedProcessed == \E i \in 1..Len(notes) : notes[i].n.tag = "closed"

\* C1: every caller whose send has returned holds a response with the id of
\* its own request, and that response is one the child wrote for that id;
\* callers resolve in the order their responses were decoded, whatever the
\* order of the requests.
C1_OwnResponse ==
    /\ \A c \in Callers : pc[c] = "done" =>
          /\ result[c].type = "response"
          /\ result[c].id = req[c]
          /\ \E i \in 1..Len(frames) :
                frames[i] = EncodeResponse(req[c], result[c].data)
    /\ \E f \in [1..Len(resolved) -> 1..Len(decoded)] :
          /\ Increasing(f, Len(resolved))
          /\ \A i \in 1..Len(resolved) :
                pc[resolved[i]] = "done" => decoded[f[i]].m = result[resolved[i]]

\* C1 witness: two requests outstanding together, answered in the opposite
\* order with different payloads, both callers resolved.
C1_Witness ==
    /\ MaxCallers >= 2
    /\ pc[1] = "done" /\ pc[2] = "done"
    /\ resolved = <<2, 1>>
    /\ result[1].data # result[2].data
    /\ stdin = EncodeRequest(0) \o <<Delim>> \o EncodeRequest(1) \o <<Delim>>

\* C2: the step in which the read loop returns on a Closed notification
\* leaves no caller suspended in send.
C2_ClosedResolvesPending ==
    [][(loop = "reading" /\ loop' = "returned" /\ exit' = "closed")
         => \A c \in Callers : pc'[c] # "waiting"]_vars

\* C3: the step in which destroy reaps the child, or in which the read loop
\* returns on end-of-stream or on a read error, leaves no caller suspended in
\* send.
C3_TeardownResolvesPending ==
    [][((~reaped /\ reaped')
          \/ (loop = "reading" /\ loop' = "returned" /\ exit' \in {"eof", "error"}))
         => \A c \in Callers : pc'[c] # "waiting"]_vars

\* C4: once a Closed notification has been processed, a new send fails at
\* once: it registers no listener, writes nothing and does not suspend.
C4_SendAfterClosedFails ==
    [][(ClosedProcessed /\ message_id' # message_id)
         => /\ internal_event' = internal_event
            /\ stdin' = stdin
            /\ \A c \in Callers : pc[c] = "idle" => pc'[c] \in {"idle", "failed"}]_vars

\* The notifications dispatched after handler h was registered, under its event.
Matching(h) ==
    {i \in 1..Len(notes) : i > regs[h].at /\ notes[i].n.tag = regs[h].event}

\* The notifications handler h was called with.
Fired(h) == {i \in 1..Len(notes) : \E j \in 1..Len(notes[i].hs) : notes[i].hs[j] = h}

\* Whether h is due at notification i: registered before it under its event
\* and, when registered with once, not called since.
Due(h, i) ==
    /\ regs[h].state = "ok"
    /\ i \in Matching(h)
    /\ regs[h].once => \A j \in Matching(h) : i <= j

Msgs == [i \in 1..Len(decoded) |-> decoded[i].m]

\* C5: a handler registered with once is called with the first notification
\* of its event dispatched after the registration and with no other; a
\* handler registered with on is called with every one of them; no handler
\* is called twice with one notification.
C5_OnceFiresOnceOnFiresAlways ==
    \A h \in Handlers : regs[h].state = "ok" =>
        /\ Fired(h) = {i \in 1..Len(notes) : Due(h, i)}
        /\ regs[h].once => Cardinality(Fired(h)) <= 1
        /\ ~regs[h].once => Fired(h) = Matching(h)
        /\ \A i \in Fired(h) :
              Cardinality({j \in 1..Len(notes[i].hs) : notes[i].hs[j] = h}) = 1

\* C5 witness: a once handler that was called with the first of two
\* notifications of its event and not with the second.
C5_Witness ==
    \E h \in Handlers :
        /\ regs[h].state = "ok" /\ regs[h].once
        /\ Cardinality(Matching(h)) >= 2
        /\ Cardinality(Fired(h)) = 1

\* C6: on("ipc") and once("ipc") without options.ipc are rejected: the
\* handler is not among the listeners and is never called, and the call
\* writes nothing to the child and reads nothing from it; every other
\* registration is accepted and adds the listener.
C6_IpcGate ==
    /\ [](\A h \in Handlers : regs[h].state # "unused" =>
            IF regs[h].event = "ipc" /\ ~ipc
            THEN /\ regs[h].state = "rejected"
                 /\ \A i \in 1..Len(external_event) : external_event[i].h # h
                 /\ Fired(h) = {}
            ELSE regs[h].state = "ok")
    /\ [][\A h \in Handlers : (regs[h].state = "unused" /\ regs'[h].state # "unused") =>
            /\ stdin' = stdin /\ stdout' = stdout /\ buffer' = buffer
            /\ IF regs'[h].event = "ipc" /\ ~ipc
               THEN external_event' = external_event
               ELSE external_event' =
                        Append(external_event, [event |-> regs'[h].event,
                                                once |-> regs'[h].once, h |-> h])]_vars

\* C6 witness: a rejected ipc handler, bytes on both pipes, and an ipc
\* notification dispatched after the rejection without calling it.
C6_Witness ==
    \E h \in Handlers :
        /\ regs[h].state = "rejected"
        /\ stdin # <<>>
        /\ \E i \in 1..Len(notes) : i > regs[h].at /\ notes[i].n.tag = "ipc"

\* All the bytes the child has written: every frame followed by the delimiter.
RECURSIVE Wire(_)
Wire(fs) == IF fs = <<>> THEN <<>> ELSE Head(fs) \o <<Delim>> \o Wire(Tail(fs))

\* The bytes recv has taken out of the buffer as frames.
Taken == Len(Wire(frames)) - Len(buffer) - Len(stdout)

WellFormed(m) == m # DecodeError

IsNotification(m) == m.type = "notification"

\* C7: a frame that does not decode is skipped and nothing else: the scan
\* goes on to the end of the buffer and the loop keeps reading; the frames
\* decoded around it are the well-formed frames the child wrote, in order;
\* every decoded notification is dispatched, in order, and every resolved
\* caller holds a decoded response of its own id, while a caller still waiting
\* has its listener registered.
C7_MalformedSkipped ==
    /\ \A i \in 1..Len(decoded) :
          (decoded[i].m = DecodeError /\ i = Len(decoded)) =>
              loop = "reading" /\ ~HasDelim(buffer)
    /\ loop = "returned" => exit \in {"closed", "eof", "error", "unstarted"}
    /\ SelectSeq(Msgs, WellFormed) =
          SelectSeq([i \in 1..Len(decoded) |-> Decode(frames[i])], WellFormed)
    /\ SelectSeq(Msgs, IsNotification) = [i \in 1..Len(notes) |-> notes[i].n]
    /\ \A c \in Callers :
          /\ pc[c] = "done" =>
                \E i \in 1..Len(decoded) : Msgs[i] = result[c] /\ Msgs[i].id = req[c]
          /\ pc[c] = "waiting" =>
                \E i \in 1..Len(internal_event) :
                    internal_event[i] = [event |-> Str(req[c]), c |-> c]

\* C7 witness: a response, a frame that does not decode and another response
\* decoded in this order, both responses delivered to their callers.
C7_Witness ==
    /\ Len(decoded) = 3
    /\ Msgs[2] = DecodeError
    /\ pc[1] = "done" /\ Msgs[1] = result[1]
    /\ pc[2] = "done" /\ Msgs[3] = result[2]

\* C8: whatever the sizes of the chunks read, every frame is decoded once, from
\* all its bytes: the messages decoded are the decodings of the first frames
\* the child wrote, the bytes taken end at the delimiter of the last of them,
\* and the buffer followed by the unread bytes is the rest of what the child
\* wrote.
C8_ChunkingInvisible ==
    /\ Taken = Len(Wire(SubSeq(frames, 1, Len(decoded))))
    /\ Msgs = [i \in 1..Len(decoded) |-> Decode(frames[i])]
    /\ buffer \o stdout = SubSeq(Wire(frames), Taken + 1, Len(Wire(frames)))

\* C8 witness: a response whose bytes arrived in more than one chunk, decoded
\* whole and delivered to its caller.
C8_Witness ==
    /\ spliced
    /\ Len(decoded) = 1
    /\ Msgs[1] = Decode(frames[1])
    /\ pc[1] = "done" /\ result[1] = Msgs[1]

\* C9: a Closed notification is dispatched to the closed handlers due at that
\* moment and is the last thing its loop does: the loop has returned, and no
\* frame after it is decoded or dispatched by that loop, whether it was
\* already in the buffer or arrived later.
C9_ClosedEndsLoop ==
    /\ \A i \in 1..Len(notes) : notes[i].n.tag = "closed" =>
          /\ {notes[i].hs[j] : j \in 1..Len(notes[i].hs)} = {h \in Handlers : Due(h, i)}
          /\ \A k \in 1..Len(notes) : k > i => notes[k].loop # notes[i].loop
          /\ notes[i].loop = loops => loop = "returned" /\ exit = "closed"
    /\ \A i \in 1..Len(decoded) :
          (IsNotification(decoded[i].m) /\ decoded[i].m.tag = "closed") =>
              \A k \in 1..Len(decoded) : k > i => decoded[k].loop # decoded[i].loop

\* C9 witness: a closed handler called with Closed, the loop returned, and a
\* whole frame that followed Closed still in the buffer.
C9_Witness ==
    /\ Len(notes) >= 1
    /\ notes[Len(notes)].n.tag = "closed"
    /\ notes[Len(notes)].hs # <<>>
    /\ loop = "returned"
    /\ HasDelim(buffer)

\* C10: a Started notification of another version is handled as one of
\* BIN_VERSION except for the warning: the started handlers due are called
\* with it, the loop keeps reading (it returns later only on Closed or on
\* end-of-stream), and one warning is printed per such notification.
C10_VersionMismatchWarnsOnly ==
    /\ \A i \in 1..Len(notes) : notes[i].n.tag = "started" =>
          /\ {notes[i].hs[j] : j \in 1..Len(notes[i].hs)} = {h \in Handlers : Due(h, i)}
          /\ \E k \in 1..Len(frames) : notes[i].n = Decode(frames[k])
          /\ (i = Len(notes) /\ notes[i].loop = loops /\ loop = "returned")
                => exit = "eof"
    /\ warnings = Cardinality({i \in 1..Len(notes) :
                     notes[i].n.tag = "started" /\ notes[i].n.version # BIN_VERSION})

\* C10 witness: a started handler called with a Started of another version,
\* and a later notification dispatched by the same loop.
C10_Witness ==
    /\ Len(notes) >= 2
    /\ notes[1].n.tag = "started" /\ notes[1].n.version # BIN_VERSION
    /\ notes[1].hs # <<>>
    /\ notes[2].loop = notes[1].loop
    /\ warnings >= 1

HasCalled(c) == pc[c] # "idle"

\* C11: the ids handed out by message_id are 0, 1, 2, ... in the order of the
\* facade calls: the k-th call gets k - 1, the counter equals the number of
\* calls made, no id is handed out twice, and no two requests awaiting their
\* response carry the same id.
C11_IdsIncreasing ==
    /\ message_id = Cardinality({c \in Callers : HasCalled(c)})
    /\ \A c \in Callers : HasCalled(c) => req[c] = Cardinality({d \in Callers : d < c})
    /\ \A c, d \in Callers : HasCalled(c) /\ HasCalled(d) /\ c < d => req[c] < req[d]
    /\ \A c, d \in Callers :
          pc[c] = "waiting" /\ pc[d] = "waiting" /\ c # d => req[c] # req[d]

C11_Witness ==
    /\ \A c \in Callers : pc[c] = "waiting"
    /\ \E c, d \in Callers : req[c] = 0 /\ req[d] = 1
    /\ loop = "reading"

\* C12: an operation that expects an acknowledgement returns, without a
\* value, exactly when the response is an AckResponse; an operation that
\* expects a result returns, with the value carried, exactly when the response
\* is a ResultResponse of the kind it expects; in every other case it raises.
C12_UnwrapExact ==
    unwrap.ret.kind \in {"return", "raise"} =>
        LET r == unwrap.outcome
            ok == IF unwrap.op \in AckOps
                  THEN r.type = "ack"
                  ELSE r.type = "result" /\ r.kind = Expected(unwrap.op)
        IN  /\ unwrap.ret.kind = "return" <=> ok
            /\ unwrap.ret.kind = "raise" <=> ~ok
            /\ ok /\ unwrap.op \in AckOps => unwrap.ret.value = "None"
            /\ ok /\ unwrap.op \in ResultOps => unwrap.ret.value = r.value
            /\ ~ok => unwrap.ret.value = ""

C12_Witness ==
    /\ unwrap.op = "is_visible"
    /\ unwrap.outcome.type = "result"
    /\ unwrap.outcome.kind = "StringResultType"
    /\ unwrap.ret.kind = "raise"

\* C13: an ErrResponse to any operation is raised to its caller as the error
\* whose message is the remote message, which no response of an unexpected
\* shape is raised as.
C13_ErrCarriesRemoteMessage ==
    unwrap.ret.kind \in {"return", "raise"} =>
        /\ unwrap.outcome.type = "err" =>
              unwrap.ret.kind = "raise" /\ unwrap.ret.text = <<unwrap.outcome.message>>
        /\ unwrap.outcome.type # "err" /\ unwrap.ret.kind = "raise" =>
              Head(unwrap.ret.text) \in {"Expected ", "Unexpected response type: "}

\* The callers whose send reached stdin.write, in the order of their calls.
Sent == SelectSeq([c \in Callers |-> c], LAMBDA c : pc[c] \in {"waiting", "done"})

\* C14: the bytes on the child's stdin are the whole request frames of the
\* sends that wrote, one after the other in the order of the sends, each
\* followed by its delimiter: no frame is cut by, or mixed with, another.
C14_WholeFramesOnStdin ==
    stdin = Wire([i \in 1..Len(Sent) |-> EncodeRequest(req[Sent[i]])])

C14_Witness ==
    /\ Len(Sent) = 2
    /\ stdin = EncodeRequest(0) \o <<Delim>> \o EncodeRequest(1) \o <<Delim>>

\* The notification frames the child has emitted, in emission order.
Emitted == SelectSeq([i \in 1..Len(frames) |-> Decode(frames[i])], IsNotification)

\* C15: the notifications handed to the external handlers are, in order, the
\* first notification frames of the child's stream: the k-th notification
\* dispatched is the k-th notification emitted, whatever the chunks and
\* whatever responses and malformed frames lie between them.
C15_DispatchInEmissionOrder ==
    /\ Len(notes) <= Len(Emitted)
    /\ \A i \in 1..Len(notes) : notes[i].n = Emitted[i]

C15_Witness ==
    /\ Len(notes) = 2
    /\ notes[1].n.tag = "ipc"
    /\ notes[2].n.tag = "started"
    /\ Len(decoded) = 3
    /\ ~IsNotification(decoded[2].m)
    /\ notes[2].hs # <<>>
    /\ spliced

\* The child has emitted a response to the request of c that recv has not
\* taken out of the byte stream yet.
ResponseEmitted(c) ==
    \E i \in (Len(decoded) + 1)..Len(frames) :
        Decode(frames[i]).type = "response" /\ Decode(frames[i]).id = req[c]

\* C16: a request issued by a notification handler is resolved when the child
\* has emitted its response: while the handler is suspended in send the read
\* loop goes on to that response, so it never waits for further bytes on an
\* empty pipe while the response of a suspended handler is still unrouted.
C16_HandlerSendResolves ==
    \A c \in Callers :
        pc[c] = "waiting" /\ ResponseEmitted(c) => ~(loop = "reading" /\ stdout = <<>>)

\* C17: a read loop runs from the moment the child is spawned, so a request
\* awaiting its response always has a read loop that was started to route it,
\* also when it is sent before wait_until_closed is called.
C17_ReaderRunsFromSpawn ==
    \A c \in Callers : pc[c] = "waiting" => loop # "idle"

\* C18: whenever the read loop is suspended waiting for more bytes, every
\* delimited frame of the bytes received has been extracted: the buffer holds
\* no delimiter.
C18_NoFrameLeftWhileReading ==
    loop = "reading" => ~HasDelim(buffer)

\* C19: when the loop has ended on end-of-stream without a Closed having been
\* dispatched, every delimiter-terminated frame received has been decoded:
\* what the buffer still holds is an undelimited remainder.
C19_EofLeavesOnlyRemainder ==
    loop = "returned" /\ exit = "eof" /\ ~ClosedProcessed => ~HasDelim(buffer)

\* C20: each request is resolved at most once.  No caller is woken twice and
\* a resolved caller has no listener left; a response decoded afterwards,
\* with the id of a resolved request or of no pending request, changes the
\* outcome of no caller, and a read that wakes nobody leaves every waiter
\* and listener as it was; a read that dispatches no notification leaves the
\* loop reading.
C20_ResolvedAtMostOnce ==
    /\ [](/\ \A i, j \in 1..Len(resolved) : i # j => resolved[i] # resolved[j]
          /\ \A c \in Callers : pc[c] = "done" =>
                \A i \in 1..Len(internal_event) : internal_event[i].c # c)
    /\ [][/\ \A c \in Callers : pc[c] = "done" =>
                pc'[c] = "done" /\ result'[c] = result[c]
          /\ decoded' # decoded /\ resolved' = resolved =>
                internal_event' = internal_event /\ pc' = pc /\ result' = result
          /\ decoded' # decoded /\ notes' = notes => loop' = "reading"]_vars

C20_Witness ==
    /\ pc[1] = "done"
    /\ pc[2] = "waiting"
    /\ resolved = <<1>>
    /\ Len(decoded) = 2
    /\ decoded[1].m = result[1]
    /\ decoded[2].m.type = "response"
    /\ decoded[2].m.id = req[1]
    /\ decoded[2].m.data # result[1].data
    /\ loop = "reading"

\* The read loop has exited after Closed or end-of-stream and destroy has
\* reaped the child.
Terminated == loop = "returned" /\ exit \in {"closed", "eof"} /\ reaped

\* C21: Terminated is absorbing: no step taken from a terminated session
\* starts a read loop, spawns a child, or decodes, dispatches or routes
\* another message.
C21_TerminatedAbsorbing ==
    [][Terminated =>
          /\ Terminated'
          /\ loops' = loops
          /\ process' = process
          /\ decoded' = decoded
          /\ notes' = notes
          /\ resolved' = resolved]_vars

\* C22: leaving the context terminates the child only after the read loop has
\* exited: when the child has been reaped the loop has returned on Closed,
\* end-of-stream or a read error and the process has exited, and no step
\* terminates the child while the loop is idle or reading.
C22_LoopExitsBeforeDestroy ==
    /\ [](reaped => /\ loop = "returned"
                    /\ exit \in {"closed", "eof", "error"}
                    /\ process = "exited")
    /\ [][~reaped /\ reaped' => loop = "returned" /\ loop' = "returned"]_vars

C22_Witness ==
    /\ reaped
    /\ exit = "closed"
    /\ process = "exited"
    /\ Len(notes) = 2
    /\ \E c \in Callers : pc[c] = "done"

\* C23: in the legacy client one response routed by recv resolves at most
\* one of the sends that are outstanding: no step takes two callers from
\* waiting to done.
C23_LegacyOneResponseOneCaller ==
    [][Cardinality({c \in Callers : pc[c] = "waiting" /\ pc'[c] = "done"}) <= 1]_vars

\* The responses decoded by the step being taken.
JustDecoded(i) == i > Len(decoded) /\ decoded'[i].m.type = "response"

\* C24: every request whose frame is on the child's stdin and whose caller
\* has not been resolved has exactly one listener registered under its id,
\* and a response decoded for the id of a waiting request resolves it.
C24_WaiterBeforeWrite ==
    /\ [](\A i \in 1..Len(Sent) : pc[Sent[i]] = "waiting" =>
             Cardinality({j \in 1..Len(internal_event) :
                 internal_event[j] = [event |-> Str(req[Sent[i]]), c |-> Sent[i]]}) = 1)
    /\ [][\A c \in Callers : pc[c] = "waiting" /\
             (\E i \in 1..Len(decoded') : JustDecoded(i) /\ decoded'[i].m.id = req[c])
             => pc'[c] = "done"]_vars

C24_Witness ==
    /\ pc[1] = "waiting"
    /\ internal_event = <<[event |-> Str(req[1]), c |-> 1]>>
    /\ stdin = EncodeRequest(req[1]) \o <<Delim>>
    /\ stdout = EncodeResponse(req[1], "ack") \o <<Delim>>
    /\ loop = "reading"

\* C25: responses and notifications go through disjoint registries.  Every
\* call of an external handler is made with a notification, under the event
\* the handler was registered for; a handler registered under the decimal
\* string of a request id is never called and stays registered; every caller
\* is resolved with a response, and only by a step that decodes one.
C25_DisjointRegistries ==
    /\ [](/\ \A i \in 1..Len(notes) :
                /\ notes[i].n.type = "notification"
                /\ \A j \in 1..Len(notes[i].hs) :
                      regs[notes[i].hs[j]].event = notes[i].n.tag
          /\ \A h \in Handlers : regs[h].state = "ok" /\ IsDigit(regs[h].event) =>
                /\ Fired(h) = {}
                /\ \E j \in 1..Len(external_event) : external_event[j].h = h
          /\ \A c \in Callers : pc[c] = "done" => result[c].type = "response")
    /\ [][resolved' # resolved => \E i \in 1..Len(decoded') : JustDecoded(i)]_vars

C25_Witness ==
    /\ regs[1] = [state |-> "ok", event |-> Str(0), once |-> TRUE, at |-> 0]
    /\ pc[1] = "done"
    /\ req[1] = 0
    /\ Len(notes) = 1
    /\ notes[1].hs = <<>>
    /\ Len(decoded) = 2
    /\ pc[2] = "waiting"
    /\ external_event = <<[event |-> Str(0), once |-> TRUE, h |-> 1]>>

\* C26: while no child has been started, send and recv have only failed: no
\* listener is registered, no byte written, read or decoded, no loop is
\* reading and nothing has been terminated; the only step that starts a
\* child is __aenter__, which changes nothing else; and on/once register
\* their handler, unless the ipc gate rejects it.
C26_UnstartedFails ==
    /\ [](process = "none" =>
              /\ internal_event = <<>>
              /\ stdin = <<>> /\ stdout = <<>> /\ buffer = <<>> /\ decoded = <<>>
              /\ ~reaped
              /\ \A c \in Callers : pc[c] \in {"idle", "failed"}
              /\ loop \in {"idle", "returned"}
              /\ loop = "returned" => exit = "unstarted"
              /\ \A h \in Handlers :
                    /\ regs[h].state = "rejected" => regs[h].event = "ipc" /\ ~ipc
                    /\ regs[h].state = "ok" =>
                          \E j \in 1..Len(external_event) : external_event[j].h = h)
    /\ [][process = "none" /\ process' # "none" =>
              /\ process' = "running"
              /\ pc' = pc /\ loop' = loop /\ message_id' = message_id]_vars

C26_Witness ==
    /\ process = "none"
    /\ pc[1] = "failed"
    /\ loop = "returned"
    /\ exit = "unstarted"
    /\ regs[1].state = "ok"
    /\ external_event # <<>>


====
